---- MODULE Spec2Model ----
(***************************************************************************)
(* A model of iterpopen.Popen (src/iterpopen.py): an iterable process      *)
(* handle with timeouts.  One handle is modelled together with the child   *)
(* process behind it, the thread that iterates the handle ("main") and a   *)
(* second thread that queries the exit status ("other"), and the two       *)
(* RunCmd functions (src/iterpopen.py, src/gke_onprem_test.py) that create *)
(* a handle and run it to its end.                                         *)
(*                                                                         *)
(* Bytes are the strings "nl" (a newline) and "a" (any other byte); byte   *)
(* strings are sequences of them.  A file object of the handle is a        *)
(* channel name; `chans` holds the channels that exist (self.stdin,        *)
(* self.stdout, self.stderr not None) and `open` those not yet closed.     *)
(***************************************************************************)
EXTENDS Integers, Sequences, FiniteSets, TLC

VARIABLES
    chans,       \* channels of the handle that are PIPE or PTY
    ptys,        \* those of them that are PTYs
    open,        \* channels whose file object is not closed
    closes,      \* per channel, how often the handle's code has closed it
    bufsize,     \* self.bufsize
    input,       \* self.input, the pending stdin bytes (<<>> also for None)
    timeout,     \* TRUE iff self.timeout is set
    spawn,       \* the Popen(...) call that makes the handle, and its outcome
    loop,        \* the harness loop that is looked at, if any: its function, its
                 \* locals, the RunCmd calls it has made, the timeout given to
                 \* the last of them and the one that call applied
    fds,         \* the _get_handles call of that Popen(...): its arguments, its
                 \* position, the descriptors it has made and set to raw mode
    outbuff,     \* self.outbuff
    errbuff,     \* self.errbuff
    returncode,  \* self.returncode: {} for None, {code} once recorded
    lockOwner,   \* the thread holding self.__race_lock, or NoThread
    wrote,       \* per output channel, the bytes the child writes in its life
    nread,       \* per output channel, how many of them os.read has returned
    written,     \* the bytes os.write has passed to the child's stdin
    proc,        \* the OS process: "running", "zombie" (exited), "reaped"
    exitCode,    \* the status the process exits with and the OS then holds
    exits,       \* TRUE iff the command exits by itself
    clock,       \* time units spent in the running iterator, and at its last poll
    pc,          \* per thread, its position in the code
    mode,        \* what the main thread drives: "none", "iter", "comm"
    files,       \* the iterator's `files` map (the poll set)
    readErr,     \* per output channel, the errno of the read error the
                 \* current iterator met on it, or NoErrno
    lastItem,    \* the item handed over at the current yield
    output,      \* communicate()'s list of the items yielded so far, a local
    yielded,     \* per output channel, all chunks yielded so far, joined
    nchunks,     \* per output channel, how many non-empty chunks were yielded
    result,      \* how the main thread's last operation ended
    commRet,     \* the pair communicate() returned
    iters,       \* iterators created on the handle so far: 0, 1, or 2 for more
    given,       \* the input given at spawn time, then to each communicate()
    pollRet,     \* what the other thread's last poll() returned, and how
    run          \* the RunCmd call that owns the handle, if any: which RunCmd,
                 \* its arguments, the commands it has executed, its outcome

vars == <<chans, ptys, open, closes, bufsize, input, timeout, spawn, fds, loop, outbuff, errbuff, returncode,
          lockOwner, wrote, nread, written, proc, exitCode, exits, clock, pc, mode,
          files, readErr, lastItem, output, yielded, nchunks, result, commRet,
          iters, given, pollRet, run>>

handleVars == <<chans, ptys, open, closes, bufsize, input, timeout, spawn, fds, loop, outbuff,
                errbuff>>
osVars == <<wrote, nread, written, proc, exitCode, exits, clock>>
iterVars == <<mode, files, readErr, lastItem, output, yielded, nchunks, result, commRet,
              iters, given>>
otherVars == <<pollRet>>

----------------------------------------------------------------------------
(* Bounds of the model. *)
MaxOutLen == 3      \* bytes the child writes to stdout
MaxErrLen == 1      \* bytes the child writes to stderr
MaxInLen == 1       \* bytes of input given at spawn time
MaxBytes == 3       \* bytes on all three channels together
MaxConcLen == 1     \* bytes per channel when two threads use the handle
BlockSize == 2      \* the block size N of the fixed-block policy
MaxCounter == 1     \* the largest `counter` given to the harness RunCmd
MaxExecutions == 31 \* RunCmd calls one harness loop is followed for
MaxInterrupts == 2  \* signals that interrupt the raw-mode calls of one spawn
MaxWriteLen == 3     \* bytes of input when the writes are looked at
TimeoutTicks == 2   \* the timeout of the handle, in time units
MaxElapsed == 4     \* time units an iterator is followed for

Bytes == {"nl", "a"}
Threads == {"main", "other"}
NoThread == "nobody"
OutChans == {"stdout", "stderr"}
Channels == {"stdin"} \cup OutChans
BufSizes == {-1, 0, 1, BlockSize}
ExitCodes == {0, 1}
SIGKILL == 9
EIO == 5
EBADF == 9
Errnos == {EIO, EBADF}
NoErrno == 0
NoneVal == <<"None">>
NoItem == [shape |-> "none", out |-> <<>>, err |-> <<>>]
Commands == {"cmd1", "cmd2"}
NoRet == [kind |-> "none", code |-> {}, cmd |-> "none", value |-> <<>>]
\* The two forms of a command: a str runs under a shell, a list is executed.
CommandForms == {"shell", "argv"}

\* The Popen call of a handle that exists.
Started == [form |-> "shell", found |-> TRUE, state |-> "started"]

\* The clock of an iterator that has not blocked yet.
NoTime == [elapsed |-> 0, began |-> 0]

\* The stream arguments of Popen(...): stderr alone can be STDOUT.
Streams == {"stdin", "stdout", "stderr"}
StreamConfigs ==
    [stdin : {"None", "PIPE", "PTY"}, stdout : {"None", "PIPE", "PTY"},
     stderr : {"None", "PIPE", "PTY", "STDOUT"}]

\* The six handles of _get_handles, and the descriptors they can hold.
HandleNames == {"p2cread", "p2cwrite", "c2pread", "c2pwrite", "errread", "errwrite"}
NoFd == <<"none">>
Pipe(s, side) == <<"pipe", s, side>>
Master(n) == <<"master", n>>
Slave(n) == <<"slave", n>>

StreamOf(h) ==
    CASE h \in {"p2cread", "p2cwrite"} -> "stdin"
      [] h \in {"c2pread", "c2pwrite"} -> "stdout"
      [] h \in {"errread", "errwrite"} -> "stderr"

\* The handle of stream s that stays with the parent.
ParentEnd(s) ==
    CASE s = "stdin" -> "p2cwrite" [] s = "stdout" -> "c2pread" [] s = "stderr" -> "errread"

\* The handles that `x, y = pty.openpty()` assigns for stream s: lines 267,
\* 273 and 280 name the read handle first and the write handle second.
FirstOfPair(s) ==
    CASE s = "stdin" -> "p2cread" [] s = "stdout" -> "c2pread" [] s = "stderr" -> "errread"
SecondOfPair(s) ==
    CASE s = "stdin" -> "p2cwrite" [] s = "stdout" -> "c2pwrite" [] s = "stderr" -> "errwrite"

\* The harness functions with a polling loop, and the expected_duration
\* values given to test_service_traffic.
LoopFunctions == {"get_all_for_namespace", "test_service_traffic"}
Durations == {1, 2, 3}

\* No harness loop is looked at.
NoLoop == [fn |-> "none", expected_duration |-> 1, count |-> 0, flag |-> FALSE,
           retcode |-> {}, executions |-> 0, given |-> 0, applied |-> 0,
           done |-> FALSE, results |-> 0]

\* No _get_handles call is looked at.
NoFds == [cfg |-> [stdin |-> "None", stdout |-> "None", stderr |-> "None"],
          at |-> "none", pending |-> "none", n |-> 0,
          handles |-> [h \in HandleNames |-> NoFd], raw |-> {}, to_close |-> {},
          intr |-> 0, child |-> <<>>]

NoRun == [by |-> "caller", args |-> "none", counter |-> 0, executions |-> 0,
          ret |-> NoRet]

SeqsUpTo(n) == UNION {[1..k -> Bytes] : k \in 0..n}

\* The byte strings of at most n empty lines.
EmptyLinesUpTo(n) == {[i \in 1..k |-> "nl"] : k \in 0..n}
Min(a, b) == IF a < b THEN a ELSE b
Sign(n) == IF n > 0 THEN 1 ELSE 0

----------------------------------------------------------------------------
(* Python byte-string primitives. *)

\* s[:n] for n >= 0
Take(s, n) == SubSeq(s, 1, Min(n, Len(s)))

\* s[n:] for n >= 0
Drop(s, n) == SubSeq(s, Min(n, Len(s)) + 1, Len(s))

\* s.find(b'\n'): the 0-based index of the first newline, or -1
Find(s) ==
    IF \E i \in 1..Len(s) : s[i] = "nl"
    THEN (CHOOSE i \in 1..Len(s) : s[i] = "nl" /\ \A j \in 1..(i-1) : s[j] # "nl") - 1
    ELSE -1

\* b''.join(list of byte strings)
RECURSIVE Join(_)
Join(ss) == IF ss = <<>> THEN <<>> ELSE Head(ss) \o Join(Tail(ss))

----------------------------------------------------------------------------
(* The iterator's sizes. *)

\* itersize as set when the iterator starts
InitialItersize(b) == IF b < 1 THEN 1048576 ELSE b

\* An offer of all pending input in every policy but line.
WriteOfferWhole(inp, b) ==
    IF b = 1
    THEN (IF Find(inp) + 1 # 0 THEN Take(inp, Find(inp) + 1) ELSE inp)
    ELSE inp

\* the slice of self.input offered to os.write
WriteOffer(inp, b) ==
    IF b = 1
    THEN (IF Find(inp) + 1 # 0 THEN Take(inp, Find(inp) + 1) ELSE inp)
    ELSE Take(inp, InitialItersize(b))

\* the size given to os.read
ReadSize(b) == IF b = 1 THEN 1024 ELSE InitialItersize(b)

\* FlushSize cutting a line buffer at its last newline, not its first.
FlushSizeLastNewline(buff, b) ==
    IF b = 1
    THEN (IF Find(buff) + 1 # 0
          THEN CHOOSE i \in 1..Len(buff) :
                   buff[i] = "nl" /\ \A j \in (i+1)..Len(buff) : buff[j] # "nl"
          ELSE Len(buff) + 1)
    ELSE b

\* itersize for one buffer in the buffered modes (bufsize >= 1)
FlushSize(buff, b) ==
    IF b = 1
    THEN (IF Find(buff) + 1 # 0 THEN Find(buff) + 1 ELSE Len(buff) + 1)
    ELSE b

\* DrainSplit handing out the buffer without emptying it.
DrainSplitKeepsData(buff, isClosed, b) ==
    IF b < 1
    THEN [data |-> buff, rest |-> buff]
    ELSE IF buff # <<>> /\ (Len(buff) >= FlushSize(buff, b) \/ isClosed)
         THEN [data |-> Take(buff, FlushSize(buff, b)),
               rest |-> Drop(buff, FlushSize(buff, b))]
         ELSE [data |-> <<>>, rest |-> buff]

\* DrainSplit without the flush of the remainder at end-of-file.
DrainSplitNoEofFlush(buff, isClosed, b) ==
    IF b < 1
    THEN [data |-> buff, rest |-> <<>>]
    ELSE IF buff # <<>> /\ Len(buff) >= FlushSize(buff, b)
         THEN [data |-> Take(buff, FlushSize(buff, b)),
               rest |-> Drop(buff, FlushSize(buff, b))]
         ELSE [data |-> <<>>, rest |-> buff]

\* DrainSplit holding a full line or block back until more data follows it.
DrainSplitHoldsLast(buff, isClosed, b) ==
    IF b < 1
    THEN [data |-> buff, rest |-> <<>>]
    ELSE IF buff # <<>> /\ (Len(buff) > FlushSize(buff, b) \/ isClosed)
         THEN [data |-> Take(buff, FlushSize(buff, b)),
               rest |-> Drop(buff, FlushSize(buff, b))]
         ELSE [data |-> <<>>, rest |-> buff]

\* DrainSplit flushing whatever is buffered, a full block or not.
DrainSplitFlushesPartial(buff, isClosed, b) ==
    IF b < 1
    THEN [data |-> buff, rest |-> <<>>]
    ELSE IF buff # <<>>
         THEN [data |-> Take(buff, FlushSize(buff, b)),
               rest |-> Drop(buff, FlushSize(buff, b))]
         ELSE [data |-> <<>>, rest |-> buff]

\* One pass of the drain loop over one buffer: the chunk taken and what stays.
DrainSplit(buff, isClosed, b) ==
    IF b < 1
    THEN [data |-> buff, rest |-> <<>>]
    ELSE IF buff # <<>> /\ (Len(buff) >= FlushSize(buff, b) \/ isClosed)
         THEN [data |-> Take(buff, FlushSize(buff, b)),
               rest |-> Drop(buff, FlushSize(buff, b))]
         ELSE [data |-> <<>>, rest |-> buff]

\* YieldItem testing `self.stdout or self.stderr` for the pair.
YieldItemPairOnEither(ch, outdata, errdata) ==
    IF "stdout" \in ch \/ "stderr" \in ch
    THEN [shape |-> "pair", out |-> outdata, err |-> errdata]
    ELSE NoItem

\* The item yielded for (outdata, errdata), by the channels of the handle.
YieldItem(ch, outdata, errdata) ==
    IF "stdout" \in ch /\ "stderr" \in ch
    THEN [shape |-> "pair", out |-> outdata, err |-> errdata]
    ELSE IF "stdout" \in ch
         THEN [shape |-> "out", out |-> outdata, err |-> <<>>]
         ELSE IF "stderr" \in ch
              THEN [shape |-> "err", out |-> <<>>, err |-> errdata]
              ELSE NoItem

\* Registered leaving out stderr.
RegisteredWithoutStderr(op, inp) ==
    (IF "stdin" \in op /\ inp # <<>> THEN {"stdin"} ELSE {}) \cup (op \cap {"stdout"})

\* Registered without the test `not f.closed` on the output channels.
RegisteredIgnoresClosed(op, inp) ==
    (IF "stdin" \in op /\ inp # <<>> THEN {"stdin"} ELSE {}) \cup (chans \cap OutChans)

\* The channels the iterator registers, and whether it closes stdin at once.
Registered(op, inp) ==
    (IF "stdin" \in op /\ inp # <<>> THEN {"stdin"} ELSE {}) \cup (op \cap OutChans)

\* A setup that leaves a stdin without pending input open.
OpenAfterSetupKeepsStdin(op, inp) == op

OpenAfterSetup(op, inp) ==
    IF "stdin" \in op /\ inp = <<>> THEN op \ {"stdin"} ELSE op

\* A lock that never excludes anybody.
LockAlwaysAvailable(owner, t) == TRUE

\* self.__race_lock is an RLock: a thread gets it when it is free or its own.
\* No code path of the handle acquires it twice, so its depth is at most one.
LockAvailable(owner, t) == owner = NoThread \/ owner = t

\* LoopPc leaving the loop as soon as no output channel is registered.
LoopPcIgnoresStdin(fs) == IF fs \cap OutChans = {} THEN "wait_lock" ELSE "top"

\* Where the iterator goes at the top of `while files`.
LoopPc(fs) == IF fs = {} THEN "wait_lock" ELSE "top"

\* CommResult joining o[0] for both components of the pair.
CommResultBothFromOut(ch, items) ==
    IF "stdout" \in ch /\ "stderr" \in ch
    THEN [out |-> Join([i \in 1..Len(items) |-> items[i].out]),
          err |-> Join([i \in 1..Len(items) |-> items[i].out])]
    ELSE IF "stdout" \in ch
         THEN [out |-> Join([i \in 1..Len(items) |-> items[i].out]), err |-> NoneVal]
         ELSE IF "stderr" \in ch
              THEN [out |-> NoneVal, err |-> Join([i \in 1..Len(items) |-> items[i].err])]
              ELSE [out |-> NoneVal, err |-> NoneVal]

\* CommResult giving an empty byte string for a channel that is no pipe.
CommResultEmptyForMissing(ch, items) ==
    [out |-> Join([i \in 1..Len(items) |-> items[i].out]),
     err |-> Join([i \in 1..Len(items) |-> items[i].err])]

\* The pair communicate() returns from its list of items.
CommResult(ch, items) ==
    IF "stdout" \in ch /\ "stderr" \in ch
    THEN [out |-> Join([i \in 1..Len(items) |-> items[i].out]),
          err |-> Join([i \in 1..Len(items) |-> items[i].err])]
    ELSE IF "stdout" \in ch
         THEN [out |-> Join([i \in 1..Len(items) |-> items[i].out]), err |-> NoneVal]
         ELSE IF "stderr" \in ch
              THEN [out |-> NoneVal, err |-> Join([i \in 1..Len(items) |-> items[i].err])]
              ELSE [out |-> NoneVal, err |-> NoneVal]

----------------------------------------------------------------------------
(* The state after Popen.__init__. *)
InitWith(outs, errs, ins, maxTotal, timeouts, exitsSet, codes, ptySets) ==
    /\ chans \in SUBSET Channels
    /\ ptys \in ptySets
    /\ ptys \subseteq chans
    /\ open = chans
    /\ closes = [c \in Channels |-> 0]
    /\ bufsize \in BufSizes
    /\ input \in (IF "stdin" \in chans THEN ins ELSE {<<>>})
    /\ timeout \in timeouts
    /\ spawn = Started
    /\ fds = NoFds
    /\ loop = NoLoop
    /\ outbuff = <<>>
    /\ errbuff = <<>>
    /\ returncode = {}
    /\ lockOwner = NoThread
    /\ wrote \in [OutChans -> outs \cup errs]
    /\ wrote.stdout \in (IF "stdout" \in chans THEN outs ELSE {<<>>})
    /\ wrote.stderr \in (IF "stderr" \in chans THEN errs ELSE {<<>>})
    /\ Len(wrote.stdout) + Len(wrote.stderr) + Len(input) <= maxTotal
    /\ nread = [c \in OutChans |-> 0]
    /\ written = <<>>
    /\ proc = "running"
    /\ exitCode \in codes
    /\ exits \in exitsSet
    /\ clock = NoTime
    /\ pc = [t \in Threads |-> "idle"]
    /\ mode = "none"
    /\ files = {}
    /\ readErr = [c \in OutChans |-> NoErrno]
    /\ lastItem = NoItem
    /\ output = <<>>
    /\ yielded = [c \in OutChans |-> <<>>]
    /\ nchunks = [c \in OutChans |-> 0]
    /\ result = "none"
    /\ commRet = [out |-> NoneVal, err |-> NoneVal]
    /\ iters = 0
    /\ given = input
    /\ pollRet = [path |-> "none", value |-> {}]

\* One thread uses the handle of a command that exits by itself.  The input
\* given at spawn time is empty lines.
Init ==
    /\ InitWith(SeqsUpTo(MaxOutLen), SeqsUpTo(MaxErrLen), EmptyLinesUpTo(MaxInLen),
                MaxBytes, BOOLEAN, {TRUE}, {0}, {{}})
    /\ run = NoRun

\* Two threads use the handle; the command may never exit.  Its stdout is
\* any bytes, its stderr and its input are empty lines.
InitConc ==
    /\ InitWith(SeqsUpTo(MaxConcLen), EmptyLinesUpTo(MaxConcLen),
                EmptyLinesUpTo(MaxConcLen), MaxConcLen, BOOLEAN, BOOLEAN, {0}, {{}})
    /\ run = NoRun

\* One thread uses a handle with a timeout; the command may never exit.
InitLive ==
    /\ InitWith(SeqsUpTo(MaxConcLen), SeqsUpTo(MaxConcLen), SeqsUpTo(MaxConcLen),
                MaxConcLen, {TRUE}, BOOLEAN, ExitCodes, {{}})
    /\ run = NoRun

\* One thread uses a handle whose output channels may be PTYs and whose
\* reads may fail.
InitPty ==
    /\ InitWith(SeqsUpTo(MaxConcLen), SeqsUpTo(MaxConcLen), SeqsUpTo(MaxConcLen),
                MaxConcLen, BOOLEAN, {TRUE}, {0}, SUBSET OutChans)
    /\ run = NoRun

\* The handle is created by a RunCmd call.  iterpopen.RunCmd ("strict")
\* passes its arguments on to Popen.  The harness RunCmd always pipes both
\* output channels or sends both to a file, sets a timeout and gives no input.
InitRun ==
    /\ InitWith(SeqsUpTo(MaxErrLen), SeqsUpTo(MaxErrLen), SeqsUpTo(MaxInLen),
                MaxBytes, BOOLEAN, BOOLEAN, ExitCodes, {{}})
    /\ run \in [by : {"strict", "harness"}, args : Commands, counter : 0..MaxCounter,
                executions : {0}, ret : {NoRet}]
    /\ run.by = "strict" => run.counter = 0
    /\ run.by = "harness" => (chans \in {OutChans, {}} /\ timeout)

\* No handle exists yet: the program is about to call Popen(args, ...) with
\* a command in either form, whose executable exists or does not.  Every
\* attribute but the command and the stream arguments:
NoHandleYet ==
    /\ chans = {}
    /\ ptys = {}
    /\ open = {}
    /\ closes = [c \in Channels |-> 0]
    /\ bufsize = 1
    /\ input = <<>>
    /\ timeout = FALSE
    /\ outbuff = <<>>
    /\ errbuff = <<>>
    /\ returncode = {}
    /\ lockOwner = NoThread
    /\ wrote = [c \in OutChans |-> <<>>]
    /\ nread = [c \in OutChans |-> 0]
    /\ written = <<>>
    /\ proc = "none"
    /\ exitCode = 0
    /\ exits = TRUE
    /\ clock = NoTime
    /\ pc = [t \in Threads |-> "idle"]
    /\ mode = "none"
    /\ files = {}
    /\ readErr = [c \in OutChans |-> NoErrno]
    /\ lastItem = NoItem
    /\ output = <<>>
    /\ yielded = [c \in OutChans |-> <<>>]
    /\ nchunks = [c \in OutChans |-> 0]
    /\ result = "none"
    /\ commRet = [out |-> NoneVal, err |-> NoneVal]
    /\ iters = 0
    /\ given = <<>>
    /\ pollRet = [path |-> "none", value |-> {}]
    /\ run = NoRun

InitSpawn ==
    /\ spawn \in [form : CommandForms, found : BOOLEAN, state : {"new"}]
    /\ fds = NoFds
    /\ loop = NoLoop
    /\ NoHandleYet

\* No handle exists yet: the program is about to call Popen(args, stdin=...,
\* stdout=..., stderr=...) with any of the stream arguments.
InitHandles ==
    /\ spawn = [form |-> "argv", found |-> TRUE, state |-> "new"]
    /\ fds \in [cfg : StreamConfigs, at : {"new"}, pending : {"none"}, n : {0},
                 handles : {[h \in HandleNames |-> NoFd]}, raw : {{}},
                 to_close : {{}}, intr : {0}, child : {<<>>}]
    /\ loop = NoLoop
    /\ NoHandleYet

\* No handle exists yet: the harness is about to enter one of its two
\* polling loops; test_service_traffic is given any expected_duration.
InitLoop ==
    /\ spawn = [form |-> "shell", found |-> TRUE, state |-> "new"]
    /\ fds = NoFds
    /\ loop \in [fn : LoopFunctions, expected_duration : Durations, count : {0},
                  flag : {FALSE}, retcode : {{}}, executions : {0}, given : {0},
                  applied : {0}, done : {FALSE}, results : {0}]
    /\ loop.fn = "get_all_for_namespace" => loop.expected_duration = 1
    /\ NoHandleYet

----------------------------------------------------------------------------
(* Popen.__init__ *)

\* A spawn that raises OSError whenever the executable is missing.
SpawnOutcomeFailsForShell(form, found) ==
    IF ~found THEN "OSError" ELSE "started"

\* What subprocess.Popen.__init__ does with the command: a list is executed
\* directly and a missing executable raises OSError; a str is given to the
\* shell, which exists and starts whatever the command line names.
SpawnOutcome(form, found) ==
    IF form = "argv" /\ ~found THEN "OSError" ELSE "started"

\* Popen(args, bufsize, input, timeout, ...): lines 222-238.  When the
\* spawn raises, no attribute of the handle has been set.  A shell that does
\* not find the command writes a message to its stderr and exits non-zero.
Spawn ==
    /\ spawn.state = "new"
    /\ spawn' = [spawn EXCEPT !.state = SpawnOutcome(spawn.form, spawn.found)]
    /\ IF SpawnOutcome(spawn.form, spawn.found) = "started"
       THEN /\ chans' \in SUBSET Channels
            /\ open' = chans'
            /\ bufsize' \in BufSizes
            /\ input' \in (IF "stdin" \in chans' THEN SeqsUpTo(MaxConcLen) ELSE {<<>>})
            /\ given' = input'
            /\ timeout' \in BOOLEAN
            /\ wrote' \in [OutChans -> SeqsUpTo(MaxConcLen)]
            /\ spawn.found =>
                   \A c \in OutChans \ chans' : wrote'[c] = <<>>
            /\ ~spawn.found =>
                   /\ wrote'.stdout = <<>>
                   /\ wrote'.stderr = IF "stderr" \in chans' THEN <<"nl">> ELSE <<>>
            /\ Len(wrote'.stdout) + Len(wrote'.stderr) + Len(input') <= MaxConcLen
            /\ exitCode' \in (IF spawn.found THEN ExitCodes ELSE ExitCodes \ {0})
            /\ proc' = "running"
       ELSE UNCHANGED <<chans, open, bufsize, input, given, timeout, wrote, exitCode,
                        proc>>
    /\ UNCHANGED <<fds, loop, ptys, closes, outbuff, errbuff, returncode, lockOwner, nread,
                   written, exits, clock, pc, mode, files, readErr, lastItem, output,
                   yielded, nchunks, result, commRet, iters, pollRet, run>>

----------------------------------------------------------------------------
(* Popen._get_handles and setraw *)

\* The variables _get_handles does not touch.
notFds == <<chans, ptys, open, closes, bufsize, input, timeout, spawn, loop, outbuff, errbuff,
            returncode, lockOwner, wrote, nread, written, proc, exitCode, exits, clock,
            pc, mode, files, readErr, lastItem, output, yielded, nchunks, result,
            commRet, iters, given, pollRet, run>>

\* The stream that is handled after s, or the return.
AfterStream(s) ==
    CASE s = "stdin" -> "stdout"
      [] s = "stdout" -> "stderr"
      [] s = "stderr" -> "return"

\* Line 259: what the inherited _get_handles makes of one stream argument, as
\* <<parent's end, child's end>>.  PIPE gives a pipe; None gives nothing; PTY
\* is a value the inherited method knows nothing of, and what it makes of it
\* is its own business ("super"); STDOUT is the child's end of stdout, or the
\* process's own stdout when stdout is not redirected.
SuperPair(cfg, s) ==
    CASE cfg[s] = "PIPE" -> <<Pipe(s, "parent"), Pipe(s, "child")>>
      [] cfg[s] = "None" -> <<NoFd, NoFd>>
      [] cfg[s] = "PTY" -> <<NoFd, <<"super", s>>>>
      [] cfg[s] = "STDOUT" ->
            <<NoFd, CASE cfg.stdout = "PIPE" -> Pipe("stdout", "child")
                      [] cfg.stdout = "None" -> <<"fileno", "stdout">>
                      [] cfg.stdout = "PTY" -> <<"super", "stdout">>>>

SuperHandles(cfg) ==
    [h \in HandleNames |->
        IF h = ParentEnd(StreamOf(h)) THEN SuperPair(cfg, StreamOf(h))[1]
                                      ELSE SuperPair(cfg, StreamOf(h))[2]]

\* A _get_handles that sets the first descriptor of the pair to raw mode.
RawTargetFirst(s) == FirstOfPair(s)

\* Lines 269, 274, 281: setraw(p2cwrite), setraw(c2pwrite), setraw(errwrite):
\* the descriptor given to setraw is the second of the pair pty.openpty()
\* returned, which is the slave.
RawTarget(s) == SecondOfPair(s)

\* A _get_handles that leaves a merged stderr where the inherited method
\* put it.
MergedErrwriteKept(cfg, handles, s) == handles.errwrite

\* Lines 276-278: after stdout became a PTY, stderr=STDOUT follows it.
MergedErrwrite(cfg, handles, s) ==
    IF s = "stdout" /\ cfg.stderr = "STDOUT" THEN handles.c2pwrite ELSE handles.errwrite

\* Lines 259-264: the inherited method makes the handles.
SuperGetHandles ==
    /\ fds.at = "new"
    /\ fds' = [fds EXCEPT !.at = "stdin", !.handles = SuperHandles(fds.cfg)]
    /\ UNCHANGED notFds

\* Lines 266, 272, 279: a stream that is not a PTY is left as it is.
KeepStream ==
    /\ fds.at \in Streams
    /\ fds.pending = "none"
    /\ fds.cfg[fds.at] # "PTY"
    /\ fds' = [fds EXCEPT !.at = AfterStream(fds.at)]
    /\ UNCHANGED notFds

\* Lines 267, 273, 280: `x, y = pty.openpty()` makes a new pseudo-terminal
\* and returns <<master, slave>>.
OpenPty ==
    /\ fds.at \in Streams
    /\ fds.pending = "none"
    /\ fds.cfg[fds.at] = "PTY"
    /\ fds' = [fds EXCEPT !.n = @ + 1,
                          !.handles[FirstOfPair(fds.at)] = Master(fds.n + 1),
                          !.handles[SecondOfPair(fds.at)] = Slave(fds.n + 1),
                          !.pending = fds.at]
    /\ UNCHANGED notFds

\* Lines 137-140: tty.setraw is interrupted by a signal (EINTR) and the
\* loop calls it again.
SetRawInterrupted ==
    /\ fds.pending # "none"
    /\ fds.intr < MaxInterrupts
    /\ fds' = [fds EXCEPT !.intr = @ + 1]
    /\ UNCHANGED notFds

\* Lines 141-142: any other OSError of tty.setraw leaves setraw,
\* _get_handles and Popen(...).
SetRawFails ==
    /\ fds.pending # "none"
    /\ fds' = [fds EXCEPT !.at = "OSError", !.pending = "none"]
    /\ spawn' = [spawn EXCEPT !.state = "OSError"]
    /\ UNCHANGED <<chans, ptys, open, closes, bufsize, input, timeout, loop, outbuff, errbuff,
                   returncode, lockOwner, wrote, nread, written, proc, exitCode, exits,
                   clock, pc, mode, files, readErr, lastItem, output, yielded, nchunks,
                   result, commRet, iters, given, pollRet, run>>

\* Lines 269-271, 274-278, 281-282: tty.setraw returns; both descriptors go
\* to to_close; a stderr merged into stdout follows stdout's new descriptor.
SetRaw ==
    /\ fds.pending # "none"
    /\ fds' = [fds EXCEPT
                 !.raw = @ \cup {fds.handles[RawTarget(fds.pending)]},
                 !.to_close = @ \cup {fds.handles[FirstOfPair(fds.pending)],
                                      fds.handles[SecondOfPair(fds.pending)]},
                 !.handles.errwrite = MergedErrwrite(fds.cfg, fds.handles, fds.pending),
                 !.pending = "none",
                 !.at = AfterStream(fds.pending)]
    /\ UNCHANGED notFds

\* Lines 283-286 and 232: _get_handles returns and the inherited __init__
\* goes on to spawn the child with p2cread, c2pwrite and errwrite as its
\* stdin, stdout and stderr.
ExecuteChild ==
    /\ fds.at = "return"
    /\ fds' = [fds EXCEPT !.at = "spawned",
                          !.child = <<fds.handles.p2cread, fds.handles.c2pwrite,
                                      fds.handles.errwrite>>]
    /\ UNCHANGED notFds

NextHandles ==
    \/ SuperGetHandles
    \/ KeepStream
    \/ OpenPty
    \/ SetRawInterrupted
    \/ SetRawFails
    \/ SetRaw
    \/ ExecuteChild

\* One Popen(...) call, from its _get_handles to the spawn of the child.
HandlesSpec == InitHandles /\ [][NextHandles]_vars

----------------------------------------------------------------------------
(* The child process and the OS. *)

\* Two threads use a handle without a timeout; the command exits.
InitBlock ==
    /\ InitWith(SeqsUpTo(MaxConcLen), SeqsUpTo(MaxConcLen), SeqsUpTo(MaxConcLen),
                MaxConcLen, {FALSE}, {TRUE}, ExitCodes, {{}})
    /\ run = NoRun

\* One thread uses a handle without a timeout that is given several bytes of
\* input.
InitWrite ==
    /\ InitWith(SeqsUpTo(MaxConcLen), SeqsUpTo(MaxConcLen), SeqsUpTo(MaxWriteLen),
                MaxWriteLen, {FALSE}, {TRUE}, {0}, {{}})
    /\ run = NoRun

\* Two threads use the handle of a command that exits by itself and is given
\* no input; its stdout is captured and its stderr is not.
InitFault ==
    /\ InitWith(SeqsUpTo(MaxConcLen), {<<>>}, {<<>>},
                MaxConcLen, BOOLEAN, {TRUE}, {0}, {{}})
    /\ "stdout" \in chans
    /\ "stderr" \notin chans
    /\ run = NoRun

\* The command exits by itself: the OS keeps its status until it is reaped.
ChildExit ==
    /\ proc = "running"
    /\ exits
    /\ proc' = "zombie"
    /\ UNCHANGED <<handleVars, returncode, lockOwner, wrote, nread, written,
                   exitCode, exits, clock, pc, iterVars, otherVars, run>>

\* A command that exits once the parent has read all it wrote: until then it
\* is blocked writing to a full pipe.
ChildExitDrained ==
    /\ \A c \in OutChans : nread[c] = Len(wrote[c])
    /\ ChildExit

----------------------------------------------------------------------------
(* Popen.__iter__ *)

\* iter(proc) and the first next(): lines 305-324.
StartIterator(m, inp, b) ==
    /\ pc.main = "idle"
    /\ spawn.state = "started"
    /\ iters' = IF iters < 2 THEN iters + 1 ELSE iters
    /\ mode' = m
    /\ input' = inp
    /\ given' = given \o Drop(inp, Len(input))
    /\ bufsize' = b
    /\ files' = Registered(open, inp)
    /\ readErr' = [c \in OutChans |-> NoErrno]
    /\ open' = OpenAfterSetup(open, inp)
    /\ closes' = [c \in Channels |->
                     closes[c] + (IF c \in open \ OpenAfterSetup(open, inp) THEN 1 ELSE 0)]
    /\ pc' = [pc EXCEPT !.main = LoopPc(Registered(open, inp))]
    /\ output' = <<>>
    /\ lastItem' = NoItem
    /\ result' = "running"
    /\ commRet' = [out |-> NoneVal, err |-> NoneVal]
    /\ clock' = NoTime
    /\ UNCHANGED <<chans, ptys, timeout, spawn, fds, loop, outbuff, errbuff, returncode, lockOwner,
                   wrote, nread, written, proc, exitCode, exits, yielded, nchunks,
                   otherVars>>

NewIterator == StartIterator("iter", input, bufsize) /\ UNCHANGED run

\* `with self.__race_lock:` at the top of the loop body.
MuxAcquire ==
    /\ pc.main = "top"
    /\ LockAvailable(lockOwner, "main")
    /\ lockOwner' = "main"
    /\ pc' = [pc EXCEPT !.main = "polling"]
    /\ clock' = [clock EXCEPT !.began = clock.elapsed]
    /\ UNCHANGED <<handleVars, returncode, wrote, nread, written, proc, exitCode,
                   exits, iterVars, otherVars, run>>

\* TimeoutError handled by a kill in direct iteration as well.
AfterTimeoutPcAlwaysKills(m) == "comm_kill"

\* The pc after TimeoutError leaves the iterator.
AfterTimeoutPc(m) == IF m = "comm" THEN "comm_kill" ELSE "idle"

\* A `with` block that keeps the lock when it is left.
WithExitKeepsLock(owner) == owner

\* Leaving `with self.__race_lock:` (line 328), at its end or by an
\* exception, releases the lock.
WithExit(owner) == NoThread

\* A communicate() that kills and reaps on every exception.
AfterErrorPcKills(m) == IF m = "comm" THEN "comm_kill" ELSE "idle"

\* The pc after PollError or an I/O error leaves the iterator: communicate()
\* catches TimeoutError only (line 439), so both go on to the caller.
AfterErrorPc(m) == "idle"

\* A poll that gives up also when no timeout is set.
CanTimeOutAlways(t) == TRUE

\* Line 330: poller.poll(self.timeout and ...) blocks for ever when the
\* timeout is None, and returns an empty list when a timeout runs out.
CanTimeOut(t) == t

\* poller.poll() returned nothing within the timeout: TimeoutError.  It ends
\* list(self) in communicate(), whose list of items is dropped.
MuxTimeout ==
    /\ pc.main = "polling"
    /\ CanTimeOut(timeout)
    /\ lockOwner' = WithExit(lockOwner)
    /\ pc' = [pc EXCEPT !.main = AfterTimeoutPc(mode)]
    /\ result' = IF mode = "comm" THEN result ELSE "TimeoutError"
    /\ files' = {}
    /\ output' = <<>>
    /\ UNCHANGED <<handleVars, returncode, osVars, mode, readErr, lastItem, yielded,
                   nchunks, commRet, iters, given, otherVars, run>>

\* How long one poller.poll() call blocks at most, in time units: line 330
\* passes self.timeout to every call.
PollTimeout(c) == TimeoutTicks

\* The time the running poller.poll() call has blocked.
Waited == clock.elapsed - clock.began

\* One time unit passes while poller.poll() blocks.
Tick ==
    /\ pc.main = "polling"
    /\ timeout => Waited < PollTimeout(clock)
    /\ clock.elapsed < MaxElapsed
    /\ clock' = [clock EXCEPT !.elapsed = @ + 1]
    /\ UNCHANGED <<handleVars, returncode, lockOwner, wrote, nread, written, proc,
                   exitCode, exits, pc, iterVars, otherVars, run>>

\* poller.poll() returns nothing when it has blocked for its timeout.
MuxTimeoutTimed ==
    /\ Waited = PollTimeout(clock)
    /\ MuxTimeout

\* A read error on a terminal that reports EIO is the end of its data.
\* ErrorIsEofOnAnyTty takes every read error on a terminal for it.
ErrorIsEofOnAnyTty(isTty, errno) == isTty

\* Lines 362-366: whether a failed os.read is taken for end-of-file.
ErrorIsEof(isTty, errno) == isTty /\ errno = EIO

\* The bytes of an output channel that os.read has not returned yet.
Remaining(c) == Len(wrote[c]) - nread[c]

\* Whether os.read on channel c can fail with errno e now.  At the end of
\* its data a PTY is read with EIO and never with b''; any other failure is
\* a fault that can strike at any time.
ReadCanFail(c, e) == (c \in ptys /\ e = EIO) => Remaining(c) = 0

\* The read errors on a ready output channel that are taken for end-of-file.
EofErrnos(c, isReady) ==
    {e \in Errnos : isReady /\ ReadCanFail(c, e) /\ ErrorIsEof(c \in ptys, e)}

\* What one os.read of a ready output channel does: it returns k > 0 bytes,
\* or b'' at the end of a pipe (k = 0, e = NoErrno), or fails with an errno
\* e that is taken for end-of-file (k = 0).
ReadOutcome(c, isReady, k, e) ==
    IF ~isReady \/ e # NoErrno
    THEN k = 0
    ELSE IF Remaining(c) > 0
         THEN k \in 1..Min(ReadSize(bufsize), Remaining(c))
         ELSE k = 0 /\ c \notin ptys

\* poller.poll() returned the descriptors in `ready`; each is written or read,
\* closed when done, and the lock is released (lines 346-378).
MuxBatch ==
    /\ pc.main = "polling"
    /\ \E ready \in (SUBSET files) \ {{}} :
       \E kin \in 0..Len(input),
          kout \in 0..Remaining("stdout"),
          kerr \in 0..Remaining("stderr"),
          eout \in {NoErrno} \cup EofErrnos("stdout", "stdout" \in ready),
          eerr \in {NoErrno} \cup EofErrnos("stderr", "stderr" \in ready) :
          LET newInput == Drop(input, kin)
              closing == (IF "stdin" \in ready /\ newInput = <<>> THEN {"stdin"} ELSE {})
                         \cup (IF "stdout" \in ready /\ kout = 0 THEN {"stdout"} ELSE {})
                         \cup (IF "stderr" \in ready /\ kerr = 0 THEN {"stderr"} ELSE {})
              newOut == outbuff \o SubSeq(wrote.stdout, nread.stdout + 1, nread.stdout + kout)
              newErr == errbuff \o SubSeq(wrote.stderr, nread.stderr + 1, nread.stderr + kerr)
          IN
          /\ IF "stdin" \in ready
             THEN kin \in 1..Len(WriteOffer(input, bufsize))
             ELSE kin = 0
          /\ ReadOutcome("stdout", "stdout" \in ready, kout, eout)
          /\ ReadOutcome("stderr", "stderr" \in ready, kerr, eerr)
          /\ input' = newInput
          /\ outbuff' = newOut
          /\ errbuff' = newErr
          /\ nread' = [stdout |-> nread.stdout + kout, stderr |-> nread.stderr + kerr]
          /\ written' = written \o Take(input, kin)
          /\ readErr' = [stdout |-> IF eout # NoErrno THEN eout ELSE readErr.stdout,
                          stderr |-> IF eerr # NoErrno THEN eerr ELSE readErr.stderr]
          /\ open' = open \ closing
          /\ closes' = [c \in Channels |-> closes[c] + (IF c \in closing THEN 1 ELSE 0)]
          /\ files' = files \ closing
          /\ pc' = [pc EXCEPT !.main =
                       IF newOut # <<>> \/ newErr # <<>>
                       THEN "drain" ELSE LoopPc(files \ closing)]
    /\ lockOwner' = WithExit(lockOwner)
    /\ UNCHANGED <<chans, ptys, bufsize, timeout, spawn, fds, loop, returncode, wrote, proc, exitCode,
                   exits, clock, mode, lastItem, output, yielded, nchunks, result, commRet,
                   iters, given, otherVars, run>>

\* os.read of a ready output channel fails and the failure is not taken for
\* end-of-file: the exception leaves the iterator, and communicate(), as it
\* is (lines 362-365); the `with` block releases the lock.
MuxReadError ==
    /\ pc.main = "polling"
    /\ \E c \in files \cap OutChans, e \in Errnos :
        /\ ReadCanFail(c, e)
        /\ ~ErrorIsEof(c \in ptys, e)
        /\ readErr' = [readErr EXCEPT ![c] = e]
    /\ lockOwner' = WithExit(lockOwner)
    /\ files' = {}
    /\ result' = "OSError"
    /\ pc' = [pc EXCEPT !.main = AfterErrorPc(mode)]
    /\ output' = <<>>
    /\ UNCHANGED <<handleVars, returncode, osVars, mode, lastItem, yielded, nchunks,
                   commRet, iters, given, otherVars, run>>

\* A yield after every pass of the drain loop, with data or without.
HasDataAlways(outdata, errdata) == TRUE

\* Line 400: `if outdata or errdata` before the yield.
HasData(outdata, errdata) == outdata # <<>> \/ errdata # <<>>

\* poller.poll() reports POLLERR or POLLNVAL for the descriptor `bad`: the
\* descriptors before it in the ready list are written or read and closed as
\* usual, then PollError leaves the iterator, and communicate(), as it is
\* (lines 346-349); the `with` block releases the lock.
MuxPollError ==
    /\ pc.main = "polling"
    /\ \E bad \in files :
       \E ready \in SUBSET (files \ {bad}) :
       \E kin \in 0..Len(input),
          kout \in 0..Remaining("stdout"),
          kerr \in 0..Remaining("stderr"),
          eout \in {NoErrno} \cup EofErrnos("stdout", "stdout" \in ready),
          eerr \in {NoErrno} \cup EofErrnos("stderr", "stderr" \in ready) :
          LET newInput == Drop(input, kin)
              closing == (IF "stdin" \in ready /\ newInput = <<>> THEN {"stdin"} ELSE {})
                         \cup (IF "stdout" \in ready /\ kout = 0 THEN {"stdout"} ELSE {})
                         \cup (IF "stderr" \in ready /\ kerr = 0 THEN {"stderr"} ELSE {})
          IN
          /\ IF "stdin" \in ready
             THEN kin \in 1..Len(WriteOffer(input, bufsize))
             ELSE kin = 0
          /\ ReadOutcome("stdout", "stdout" \in ready, kout, eout)
          /\ ReadOutcome("stderr", "stderr" \in ready, kerr, eerr)
          /\ input' = newInput
          /\ outbuff' = outbuff \o SubSeq(wrote.stdout, nread.stdout + 1, nread.stdout + kout)
          /\ errbuff' = errbuff \o SubSeq(wrote.stderr, nread.stderr + 1, nread.stderr + kerr)
          /\ nread' = [stdout |-> nread.stdout + kout, stderr |-> nread.stderr + kerr]
          /\ written' = written \o Take(input, kin)
          /\ readErr' = [stdout |-> IF eout # NoErrno THEN eout ELSE readErr.stdout,
                          stderr |-> IF eerr # NoErrno THEN eerr ELSE readErr.stderr]
          /\ open' = open \ closing
          /\ closes' = [c \in Channels |-> closes[c] + (IF c \in closing THEN 1 ELSE 0)]
    /\ lockOwner' = WithExit(lockOwner)
    /\ files' = {}
    /\ result' = "PollError"
    /\ pc' = [pc EXCEPT !.main = AfterErrorPc(mode)]
    /\ output' = <<>>
    /\ UNCHANGED <<chans, ptys, bufsize, timeout, spawn, fds, loop, returncode, wrote, proc, exitCode,
                   exits, clock, mode, lastItem, yielded, nchunks, commRet, iters, given,
                   otherVars, run>>

\* One pass of `while outdata or errdata` (lines 379-406): split the buffers
\* and yield the item, or leave the loop when nothing can be flushed.
DrainPass ==
    /\ pc.main = "drain"
    /\ LET o == DrainSplit(outbuff, "stdout" \notin open, bufsize)
           e == DrainSplit(errbuff, "stderr" \notin open, bufsize)
           item == YieldItem(chans, o.data, e.data)
       IN
       /\ outbuff' = o.rest
       /\ errbuff' = e.rest
       /\ IF HasData(o.data, e.data) /\ item # NoItem
          THEN /\ lastItem' = item
               /\ yielded' = [stdout |-> yielded.stdout \o item.out,
                              stderr |-> yielded.stderr \o item.err]
               /\ nchunks' = [stdout |-> nchunks.stdout + Sign(Len(item.out)),
                              stderr |-> nchunks.stderr + Sign(Len(item.err))]
               /\ pc' = [pc EXCEPT !.main = "yielded"]
          ELSE /\ UNCHANGED <<lastItem, yielded, nchunks>>
               /\ pc' = [pc EXCEPT !.main =
                            IF o.data # <<>> \/ e.data # <<>>
                            THEN "drain" ELSE LoopPc(files)]
    /\ UNCHANGED <<chans, ptys, open, closes, bufsize, input, timeout, spawn, fds, loop,
                   returncode,
                   lockOwner, osVars, mode, files, readErr, output, result, commRet,
                   iters, given, otherVars, run>>

\* The consumer asks for the next item: the generator resumes after the yield.
\* Inside communicate(), list(self) stores the item first.
Resume ==
    /\ pc.main = "yielded"
    /\ output' = IF mode = "comm" THEN Append(output, lastItem) ELSE output
    /\ lastItem' = NoItem
    /\ pc' = [pc EXCEPT !.main = "drain"]
    /\ UNCHANGED <<handleVars, returncode, lockOwner, osVars, mode, files, readErr,
                   yielded, nchunks, result, commRet, iters, given, otherVars, run>>

\* The consumer drops the iterator at a yield and keeps the item it got.
Abandon ==
    /\ pc.main = "yielded"
    /\ mode = "iter"
    /\ lastItem' = NoItem
    /\ files' = {}
    /\ result' = "abandoned"
    /\ pc' = [pc EXCEPT !.main = "idle"]
    /\ UNCHANGED <<handleVars, returncode, lockOwner, osVars, mode, readErr, output,
                   yielded, nchunks, commRet, iters, given, otherVars, run>>

----------------------------------------------------------------------------
(* Popen.wait: `with self.__race_lock:` then the blocking OS wait. *)

WaitAcquire(t, from, to) ==
    /\ pc[t] = from
    /\ LockAvailable(lockOwner, t)
    /\ lockOwner' = t
    /\ pc' = [pc EXCEPT ![t] = to]

\* subprocess.Popen.wait: returns a recorded status at once, else blocks until
\* the process has exited, reaps it and records the status.
WaitReap(t, at, to) ==
    /\ pc[t] = at
    /\ returncode # {} \/ proc = "zombie"
    /\ IF returncode = {}
       THEN /\ returncode' = {exitCode}
            /\ proc' = "reaped"
       ELSE UNCHANGED <<returncode, proc>>
    /\ lockOwner' = NoThread
    /\ pc' = [pc EXCEPT ![t] = to]

\* self.wait() at the end of __iter__, taking the lock.
IterWaitAcquire ==
    /\ WaitAcquire("main", "wait_lock", "wait_os")
    /\ UNCHANGED <<handleVars, returncode, osVars, iterVars, otherVars, run>>

\* The iterator's reap returns: StopIteration, and communicate() returns the
\* pair made of its list of items.
IterWaitReap ==
    /\ WaitReap("main", "wait_os", "idle")
    /\ result' = IF mode = "comm" THEN "returned" ELSE "StopIteration"
    /\ commRet' = IF mode = "comm" THEN CommResult(chans, output) ELSE commRet
    /\ output' = <<>>
    /\ UNCHANGED <<handleVars, wrote, nread, written, exitCode, exits, clock, mode, files,
                   readErr, lastItem, yielded, nchunks, iters, given, otherVars,
                   run>>

----------------------------------------------------------------------------
(* Popen.communicate *)

\* A communicate() that keeps the bufsize of the handle.
CommBufsizeKept(b) == b

\* Line 435: communicate() sets self.bufsize = -1 whatever it was.
CommBufsize(b) == -1

\* Lines 429-438: extend the input, force bufsize = -1, start list(self).
\* Extra input is given while stdin is open.
Communicate ==
    \E extra \in {<<>>} \cup (IF "stdin" \in open /\ Len(given) < MaxInLen
                               THEN {<<"a">>} ELSE {}) :
        StartIterator("comm", input \o extra, CommBufsize(bufsize)) /\ UNCHANGED run

\* communicate(extra) called when an earlier iterator has closed stdin.
CommunicateLate ==
    /\ "stdin" \in chans \ open
    /\ Len(given) < MaxInLen
    /\ StartIterator("comm", input \o <<"a">>, CommBufsize(bufsize))
    /\ UNCHANGED run

\* The handler re-raising right after self.kill(), without self.wait().
AfterKillPcNoWait == "idle"

\* The pc after self.kill() in the TimeoutError handler.
AfterKillPc == "reap_lock"

\* self.kill(): os.kill(pid, SIGKILL).  A process already reaped has no pid
\* any more: the call is skipped or fails with OSError, by the Python version.
CommKill ==
    /\ pc.main = "comm_kill"
    /\ \E fails \in (IF proc = "reaped" THEN BOOLEAN ELSE {FALSE}) :
        /\ pc' = [pc EXCEPT !.main = IF fails THEN "idle" ELSE AfterKillPc]
        /\ result' = IF fails THEN "OSError"
                     ELSE IF AfterKillPc = "idle" THEN "TimeoutError" ELSE result
    /\ proc' = IF proc = "running" THEN "zombie" ELSE proc
    /\ exitCode' = IF proc = "running" THEN 0 - SIGKILL ELSE exitCode
    /\ UNCHANGED <<handleVars, returncode, lockOwner, wrote, nread, written, exits, clock,
                   mode, files, readErr, lastItem, output, yielded, nchunks,
                   commRet, iters, given, otherVars, run>>

\* self.wait() in the TimeoutError handler, taking the lock.
CommReapAcquire ==
    /\ WaitAcquire("main", "reap_lock", "reap_os")
    /\ UNCHANGED <<handleVars, returncode, osVars, iterVars, otherVars, run>>

\* The handler's reap returns and TimeoutError is re-raised to the caller.
CommReapRaise ==
    /\ WaitReap("main", "reap_os", "idle")
    /\ result' = "TimeoutError"
    /\ UNCHANGED <<handleVars, wrote, nread, written, exitCode, exits, clock, mode, files,
                   readErr, lastItem, output, yielded, nchunks, commRet, iters,
                   given, otherVars, run>>

----------------------------------------------------------------------------
(* RunCmd of iterpopen.py and RunCmd of gke_onprem_test.py *)

\* Python's truth value of a byte string or None.
Truthy(x) == x # NoneVal /\ x # <<>>

\* What a RunCmd call ends with when communicate() raised: the same exception.
Raised(name) == [kind |-> name, code |-> {}, cmd |-> "none", value |-> <<>>]

\* iterpopen.RunCmd after communicate(): lines 185-191.
StrictRunCmd(rc, args, pair) ==
    IF rc # {} /\ rc # {0}
    THEN [kind |-> "ReturncodeError", code |-> rc, cmd |-> args, value |-> <<>>]
    ELSE [kind |-> "return", code |-> {}, cmd |-> "none",
          value |-> IF pair.err = NoneVal THEN <<pair.out>>
                    ELSE IF pair.out = NoneVal THEN <<pair.err>>
                    ELSE <<pair.out, pair.err>>]

\* The harness RunCmd raising CommandFailError for a failed command.
HarnessRunCmdRaises(rc, pair) ==
    IF rc = {0}
    THEN [kind |-> "return", code |-> rc, cmd |-> "none",
          value |-> <<IF Truthy(pair.err) THEN pair.out \o <<"nl">> \o pair.err
                      ELSE pair.out>>]
    ELSE [kind |-> "CommandFailError", code |-> rc, cmd |-> "none", value |-> <<>>]

\* The harness RunCmd after RetryCmd returned (rc, out, err): lines 552-554.
HarnessRunCmd(rc, pair) ==
    IF rc = {0}
    THEN [kind |-> "return", code |-> rc, cmd |-> "none",
          value |-> <<IF Truthy(pair.err) THEN pair.out \o <<"nl">> \o pair.err
                      ELSE pair.out>>]
    ELSE [kind |-> "return", code |-> rc, cmd |-> "none", value |-> <<pair.err>>]

\* RunCmd creates the handle and calls communicate() without extra input.
\* The harness RunCmd does so in its one call of RetryCmd.
RunCmdStart ==
    /\ run.by # "caller"
    /\ run.executions = 0
    /\ StartIterator("comm", input, CommBufsize(bufsize))
    /\ run' = [run EXCEPT !.executions = @ + 1]

\* communicate() has returned or raised: RunCmd returns or raises.
RunCmdFinish ==
    /\ run.by # "caller"
    /\ run.ret = NoRet
    /\ pc.main = "idle"
    /\ mode = "comm"
    /\ result \in {"returned", "TimeoutError", "OSError"}
    /\ run' = [run EXCEPT !.ret =
                  IF result # "returned" THEN Raised(result)
                  ELSE IF run.by = "strict"
                       THEN StrictRunCmd(returncode, run.args, commRet)
                       ELSE HarnessRunCmd(returncode, commRet)]
    /\ UNCHANGED <<handleVars, returncode, lockOwner, osVars, pc, iterVars, otherVars>>

----------------------------------------------------------------------------
(* The polling loops of the harness: gke_onprem_test.py. *)

\* The variables the harness loops do not touch.
notLoop == <<chans, ptys, open, closes, bufsize, input, timeout, spawn, fds, outbuff,
             errbuff, returncode, lockOwner, wrote, nread, written, proc, exitCode,
             exits, clock, pc, mode, files, readErr, lastItem, output, yielded,
             nchunks, result, commRet, iters, given, pollRet, run>>

\* A RunCmd that uses the timeout it is given.
HarnessTimeoutAsGiven(t) == t

\* Line 550: timeout = max(timeout, 20).
HarnessTimeout(t) == IF t > 20 THEN t ELSE 20

\* `retry` of get_all_for_namespace (line 1004) and of test_service_traffic
\* (line 1345).
Retry(fn) == IF fn = "get_all_for_namespace" THEN 30 ELSE 10

\* The timeout each loop gives to RunCmd: lines 1014 and 1356.
GivenTimeout(l) ==
    IF l.fn = "get_all_for_namespace" THEN 15 ELSE 10 * l.expected_duration

\* What one RunCmd call does for its caller: it raises (TimeoutError from
\* communicate(), for one), or returns a code and an output that has the
\* text the loop looks for (`marked`) or has not.
RunCmdOutcomes == [raised : BOOLEAN, retcode : {0, 1, 2}, marked : BOOLEAN]

\* The loop condition: `while count < retry and not stable_state` (line
\* 1011), `while count < retry and not traffic_passed` (line 1353).
LoopGoesOn(l) == l.count < Retry(l.fn) /\ ~l.flag

\* The RunCmd call of one iteration: the timeout given and the one applied.
Called(l) ==
    [l EXCEPT !.executions = @ + 1,
              !.given = GivenTimeout(l),
              !.applied = HarnessTimeout(GivenTimeout(l))]

\* One iteration of the loop of get_all_for_namespace (lines 1011-1025).
\* Output with Pending, ContainerCreating or Terminating (`marked`) counts
\* and goes round again; other output is the stable state; an exception is
\* printed and nothing is counted.
GetAllIteration ==
    /\ loop.fn = "get_all_for_namespace"
    /\ ~loop.done
    /\ LoopGoesOn(loop)
    /\ loop.executions < MaxExecutions
    /\ \E o \in RunCmdOutcomes :
          loop' = IF o.raised THEN Called(loop)
                  ELSE IF o.marked
                       THEN [Called(loop) EXCEPT !.count = @ + 1, !.retcode = {o.retcode}]
                       ELSE [Called(loop) EXCEPT !.flag = TRUE, !.retcode = {o.retcode}]
    /\ UNCHANGED notLoop

\* One iteration of the loop of test_service_traffic (lines 1353-1377).  An
\* exception counts and sets retcode = 1; a return code of 1 sets the name
\* `counttraffic_passed` and goes round again with nothing counted; any
\* other code counts, and the "Complete requests" line (`marked`) ends
\* the loop.
TrafficIteration ==
    /\ loop.fn = "test_service_traffic"
    /\ ~loop.done
    /\ LoopGoesOn(loop)
    /\ loop.executions < MaxExecutions
    /\ \E o \in RunCmdOutcomes :
          loop' = IF o.raised
                  THEN [Called(loop) EXCEPT !.count = @ + 1, !.retcode = {1}]
                  ELSE IF o.retcode = 1
                       THEN [Called(loop) EXCEPT !.retcode = {1}]
                       ELSE [Called(loop) EXCEPT !.retcode = {o.retcode},
                                                 !.flag = o.marked,
                                                 !.count = @ + 1]
    /\ UNCHANGED notLoop

\* Line 1025: the loop of get_all_for_namespace is over.
GetAllExit ==
    /\ loop.fn = "get_all_for_namespace"
    /\ ~loop.done
    /\ ~LoopGoesOn(loop)
    /\ loop' = [loop EXCEPT !.done = TRUE]
    /\ UNCHANGED notLoop

\* Lines 1379-1400: the loop of test_service_traffic is over and the one
\* test result is appended to test_results.
TrafficExit ==
    /\ loop.fn = "test_service_traffic"
    /\ ~loop.done
    /\ ~LoopGoesOn(loop)
    /\ loop' = [loop EXCEPT !.done = TRUE, !.results = @ + 1]
    /\ UNCHANGED notLoop

NextLoop ==
    \/ GetAllIteration
    \/ GetAllExit
    \/ TrafficIteration
    \/ TrafficExit

\* One call of get_all_for_namespace or of test_service_traffic.
LoopSpec == InitLoop /\ [][NextLoop]_vars

----------------------------------------------------------------------------
(* The other thread: poll() and wait() on the same handle. *)

OtherCallPoll ==
    /\ pc.other = "idle"
    /\ pc' = [pc EXCEPT !.other = "poll_call"]
    /\ UNCHANGED <<handleVars, returncode, lockOwner, osVars, iterVars, pollRet, run>>

\* poll() acquiring the lock with blocking=True.
PollAcquireBlockingTrue == TRUE

\* The `blocking` argument of the acquire in poll().
PollAcquireBlocking == FALSE

\* poll() querying the OS although the lock is busy.
BusyReturncodeQueries(rc, p, code) == IF rc = {} /\ p = "zombie" THEN {code} ELSE rc

\* What poll() leaves in self.returncode when the lock is busy, given the
\* recorded status, the process state and the status the OS holds.
BusyReturncode(rc, p, code) == rc

\* self.__race_lock.acquire(blocking=False): on failure poll() returns
\* self.returncode at once; on success it goes on holding the lock.
PollTry ==
    /\ pc.other = "poll_call"
    /\ PollAcquireBlocking => LockAvailable(lockOwner, "other")
    /\ IF LockAvailable(lockOwner, "other")
       THEN /\ lockOwner' = "other"
            /\ pc' = [pc EXCEPT !.other = "poll_locked"]
            /\ UNCHANGED <<returncode, proc, pollRet>>
       ELSE /\ returncode' = BusyReturncode(returncode, proc, exitCode)
            /\ proc' = IF returncode' = returncode THEN proc ELSE "reaped"
            /\ pollRet' = [path |-> "busy", value |-> returncode']
            /\ pc' = [pc EXCEPT !.other = "idle"]
            /\ UNCHANGED lockOwner
    /\ UNCHANGED <<handleVars, wrote, nread, written, exitCode, exits, clock, iterVars, run>>

\* subprocess.Popen.poll under the lock: a recorded status is returned as it
\* is; else waitpid(WNOHANG) reaps an exited process and records its status.
\* The lock is released on return.
PollQuery ==
    /\ pc.other = "poll_locked"
    /\ IF returncode = {} /\ proc = "zombie"
       THEN /\ returncode' = {exitCode}
            /\ proc' = "reaped"
       ELSE UNCHANGED <<returncode, proc>>
    /\ pollRet' = [path |-> "queried", value |-> returncode']
    /\ lockOwner' = NoThread
    /\ pc' = [pc EXCEPT !.other = "idle"]
    /\ UNCHANGED <<handleVars, wrote, nread, written, exitCode, exits, clock, iterVars, run>>

OtherCallWait ==
    /\ pc.other = "idle"
    /\ pc' = [pc EXCEPT !.other = "owait_lock"]
    /\ UNCHANGED <<handleVars, returncode, lockOwner, osVars, iterVars, pollRet, run>>

OtherWaitAcquire ==
    /\ WaitAcquire("other", "owait_lock", "owait_os")
    /\ UNCHANGED <<handleVars, returncode, osVars, iterVars, otherVars, run>>

OtherWaitReap ==
    /\ WaitReap("other", "owait_os", "idle")
    /\ UNCHANGED <<handleVars, wrote, nread, written, exitCode, exits, clock, iterVars,
                   otherVars, run>>

PollStep == PollTry \/ PollQuery

----------------------------------------------------------------------------
MainNext ==
    \/ NewIterator
    \/ Communicate
    \/ MuxAcquire
    \/ MuxTimeout
    \/ MuxBatch
    \/ DrainPass
    \/ Resume
    \/ Abandon
    \/ IterWaitAcquire
    \/ IterWaitReap
    \/ CommKill
    \/ CommReapAcquire
    \/ CommReapRaise

OtherNext ==
    \/ OtherCallPoll
    \/ PollTry
    \/ PollQuery
    \/ OtherCallWait
    \/ OtherWaitAcquire
    \/ OtherWaitReap

Next == MainNext \/ ChildExit

NextConc == MainNext \/ OtherNext \/ ChildExit

\* One thread on the handle.
Spec == Init /\ [][Next]_vars

\* Two threads on the handle.
ConcSpec == InitConc /\ [][NextConc]_vars

\* One thread on a handle with a timeout.  The thread keeps running while it
\* has a step to take: poll() returns by its timeout at the latest, and the
\* OS ends a process that exits or is killed.
LiveSpec == InitLive /\ [][Next]_vars /\ WF_vars(Next)

\* The steps of a caller that never drops an iterator at a yield.
NextDriven ==
    \/ NewIterator
    \/ Communicate
    \/ MuxAcquire
    \/ MuxTimeout
    \/ MuxBatch
    \/ DrainPass
    \/ Resume
    \/ IterWaitAcquire
    \/ IterWaitReap
    \/ CommKill
    \/ CommReapAcquire
    \/ CommReapRaise
    \/ ChildExit

\* One thread on the handle, driving every iterator until it ends or raises.
DrivenSpec == Init /\ [][NextDriven]_vars

NextInput == Next \/ CommunicateLate

\* One thread on the handle, giving extra input at any time.
InputSpec == Init /\ [][NextInput]_vars

NextPty == Next \/ MuxReadError

\* The steps of a handle that a RunCmd call creates and keeps to itself.
NextRun ==
    \/ RunCmdStart
    \/ MuxAcquire
    \/ MuxTimeout
    \/ MuxBatch
    \/ DrainPass
    \/ Resume
    \/ IterWaitAcquire
    \/ IterWaitReap
    \/ CommKill
    \/ CommReapAcquire
    \/ CommReapRaise
    \/ RunCmdFinish
    \/ ChildExit

\* One thread on a handle with PTYs, and reads that may fail.
PtySpec == InitPty /\ [][NextPty]_vars

\* One RunCmd call, of iterpopen.py or of the harness.
RunSpec == InitRun /\ [][NextRun]_vars

NextSpawn == Next \/ Spawn

NextFault == NextConc \/ MuxReadError \/ MuxPollError

\* Two threads on a handle whose polls and reads may fail.
FaultSpec == InitFault /\ [][NextFault]_vars

\* The steps of one thread on a handle that never times out.
NextWrite ==
    \/ NewIterator
    \/ Communicate
    \/ MuxAcquire
    \/ MuxBatch
    \/ DrainPass
    \/ Resume
    \/ Abandon
    \/ IterWaitAcquire
    \/ IterWaitReap
    \/ ChildExit

\* One thread on a handle with several bytes of input.
WriteSpec == InitWrite /\ [][NextWrite]_vars

\* The steps of one thread on the handle while time is measured.
NextTimed ==
    \/ NewIterator
    \/ Communicate
    \/ MuxAcquire
    \/ Tick
    \/ MuxTimeoutTimed
    \/ MuxBatch
    \/ DrainPass
    \/ Resume
    \/ IterWaitAcquire
    \/ IterWaitReap
    \/ CommKill
    \/ CommReapAcquire
    \/ CommReapRaise
    \/ ChildExit

\* One thread on a handle with a timeout, with the time spent in poll().
TimedSpec == InitLive /\ [][NextTimed]_vars

\* The one iterator of the main thread, driven to its end.
FirstIterator == iters = 0 /\ NewIterator

IterSteps ==
    \/ FirstIterator
    \/ MuxAcquire
    \/ MuxBatch
    \/ DrainPass
    \/ Resume
    \/ IterWaitAcquire
    \/ IterWaitReap

\* The other thread calls wait() while the exit status is not known.
WaitOnce == returncode = {} /\ OtherCallWait

WaitSteps ==
    \/ WaitOnce
    \/ OtherWaitAcquire
    \/ OtherWaitReap

NextBlock == IterSteps \/ WaitSteps \/ ChildExitDrained

\* One thread iterates the handle and another waits for the command, which
\* exits when its output has been read.  Each thread takes its next step
\* when it has one, and a command that can exit does.
BlockSpec ==
    /\ InitBlock /\ [][NextBlock]_vars
    /\ WF_vars(IterSteps) /\ WF_vars(WaitSteps) /\ WF_vars(ChildExitDrained)

\* One thread makes the handle and then uses it.
SpawnSpec == InitSpawn /\ [][NextSpawn]_vars

----------------------------------------------------------------------------
(* Properties. *)

\* The accumulation buffer of an output channel.
Buffer(c) == IF c = "stdout" THEN outbuff ELSE errbuff

\* The bytes os.read has returned so far on an output channel.
ReadSoFar(c) == SubSeq(wrote[c], 1, nread[c])

\* The main thread's last operation ran to its normal end.
EndedNormally == pc.main = "idle" /\ result \in {"StopIteration", "returned"}

\* C1: for every bufsize and every split of the child's output into reads, a
\* single iterator driven to completion has yielded, per channel, exactly the
\* bytes the child wrote.
C1_RoundTrip ==
    (pc.main = "idle" /\ result = "StopIteration" /\ iters = 1)
        => \A c \in OutChans : yielded[c] = wrote[c]

C1_Witness ==
    /\ pc.main = "idle" /\ result = "StopIteration" /\ iters = 1
    /\ bufsize = 1
    /\ wrote.stdout = <<"a", "nl", "a">>

\* C2: whenever an iterator or communicate() on the handle has run to its
\* end, after any number of abandoned iterators, the chunks of all iterators
\* together are the child's output: nothing buffered is lost.
C2_NoLossAfterAbandon ==
    EndedNormally => \A c \in OutChans : yielded[c] = wrote[c]

\* C3: per output channel, the bytes yielded so far followed by the
\* accumulation buffer are the bytes read so far, a prefix of what the child
\* wrote.
C3_YieldedPlusBuffer ==
    \A c \in OutChans :
        /\ yielded[c] \o Buffer(c) = ReadSoFar(c)
        /\ nread[c] <= Len(wrote[c])

C3_Witness ==
    /\ yielded.stdout # <<>>
    /\ outbuff # <<>>
    /\ nread.stdout < Len(wrote.stdout)
    /\ iters = 2
    /\ result = "running"

\* C4: when the caller of communicate() sees TimeoutError, the process has
\* been killed and reaped: it is not running, not a zombie, and its status is
\* recorded.
C4_TimeoutReaped ==
    (mode = "comm" /\ pc.main = "idle" /\ result = "TimeoutError")
        => (proc = "reaped" /\ returncode # {})

C4_Witness ==
    /\ mode = "comm" /\ pc.main = "idle" /\ result = "TimeoutError"
    /\ returncode = {0 - SIGKILL}
    /\ outbuff # <<>>

\* C5: communicate() on a handle with a timeout, for a command that never
\* exits, ends with TimeoutError and the process gone.
C5_AlwaysTimesOut ==
    (mode = "comm" /\ iters = 1 /\ timeout /\ ~exits /\ pc.main # "idle")
        ~> (pc.main = "idle" /\ result = "TimeoutError" /\ proc = "reaped")

\* A thread is querying or reaping the exit status, or inside a multiplexer
\* step.
InCritical(t) ==
    IF t = "main"
    THEN pc.main \in {"polling", "wait_os", "reap_os"}
    ELSE pc.other \in {"poll_locked", "owait_os"}

\* C6: a thread inside poll() always has a step to take, whatever the other
\* thread holds: poll() never waits for the lock.
C6_PollNeverBlocks ==
    pc.other \in {"poll_call", "poll_locked"} => ENABLED PollStep

C6_Witness ==
    /\ pc.other = "poll_call"
    /\ lockOwner = "main"
    /\ pc.main = "wait_os"
    /\ proc = "running"
    /\ ~exits

\* C7: a thread that queries or reaps the status, or runs a multiplexer step,
\* holds the lock, so at most one thread does so at a time.
C7_MutualExclusion ==
    /\ \A t \in Threads : InCritical(t) => lockOwner = t
    /\ Cardinality({t \in Threads : InCritical(t)}) <= 1

C7_Witness ==
    /\ pc.main = "polling"
    /\ lockOwner = "main"
    /\ pc.other = "owait_lock"
    /\ proc = "zombie"

\* C8: a poll() that finds the lock held by another thread returns the
\* recorded status and changes nothing else: no query, no reap, no change of
\* the recorded status.
C8_BusyPollFrame ==
    [][(pc.other = "poll_call" /\ pc'.other # "poll_call"
            /\ ~LockAvailable(lockOwner, "other"))
        => /\ pollRet'.value = returncode
           /\ pollRet'.path = "busy"
           /\ pc'.other = "idle"
           /\ pc'.main = pc.main
           /\ UNCHANGED <<handleVars, returncode, lockOwner, osVars, iterVars>>]_vars

C8_Witness ==
    /\ pollRet.path = "busy"
    /\ pollRet.value = {}
    /\ proc = "zombie"
    /\ lockOwner = "main"

\* What the handle reports for a channel: its bytes, or None without a pipe.
Expected(c) == IF c \in chans THEN wrote[c] ELSE NoneVal

\* C9: on a fresh handle communicate() returns, per channel, the child's
\* output, which is what manual iteration to completion yields joined, for
\* every configured bufsize.
C9_CommunicateEqualsIteration ==
    /\ (pc.main = "idle" /\ result = "returned" /\ iters = 1)
          => /\ commRet.out = Expected("stdout")
             /\ commRet.err = Expected("stderr")
             /\ \A c \in OutChans : yielded[c] = wrote[c]
    /\ (pc.main = "idle" /\ result = "StopIteration" /\ iters = 1)
          => \A c \in OutChans : yielded[c] = wrote[c]

C9_Witness ==
    /\ pc.main = "idle" /\ result = "returned" /\ iters = 1
    /\ nchunks.stdout = 2
    /\ commRet.out # <<>> /\ commRet.out # NoneVal
    /\ commRet.err # <<>> /\ commRet.err # NoneVal

\* The shape the channels of a handle call for.
ExpectedShape ==
    IF OutChans \subseteq chans THEN "pair"
    ELSE IF "stdout" \in chans THEN "out"
    ELSE IF "stderr" \in chans THEN "err"
    ELSE "none"

\* C10: every yielded item has the shape fixed by the output channels of the
\* handle, a single chunk carries its own channel's bytes, and a handle
\* without output channels never yields.
C10_YieldShape ==
    /\ pc.main = "yielded" =>
          /\ lastItem.shape = ExpectedShape
          /\ lastItem.shape # "none"
          /\ "stdout" \notin chans => lastItem.out = <<>>
          /\ "stderr" \notin chans => lastItem.err = <<>>
    /\ (chans \cap OutChans = {}) =>
          /\ pc.main # "yielded"
          /\ \A c \in OutChans : yielded[c] = <<>>

C10_Witness ==
    /\ pc.main = "yielded"
    /\ lastItem.shape = "err"
    /\ lastItem.err # <<>>
    /\ "stdin" \in chans

\* The chunk an item carries for an output channel.
Chunk(item, c) == IF c = "stdout" THEN item.out ELSE item.err

\* The number of newlines in a byte string.
Newlines(s) == Cardinality({i \in 1..Len(s) : s[i] = "nl"})

\* The number of lines of a byte string, an unterminated last one included.
Lines(s) == Newlines(s) + (IF s # <<>> /\ s[Len(s)] # "nl" THEN 1 ELSE 0)

\* C11: with line buffering every chunk yielded for a channel is one line,
\* with its only newline as its last byte, but for the remainder yielded
\* after the channel's end-of-file, which has no newline and empties the
\* buffer; a single iterator run to its end has yielded one chunk per line.
C11_LineChunks ==
    /\ (pc.main = "yielded" /\ bufsize = 1) =>
          \A c \in OutChans :
              Chunk(lastItem, c) # <<>> =>
                  \/ Find(Chunk(lastItem, c)) + 1 = Len(Chunk(lastItem, c))
                  \/ /\ Find(Chunk(lastItem, c)) = -1
                     /\ c \notin open
                     /\ Buffer(c) = <<>>
    /\ (pc.main = "idle" /\ result = "StopIteration" /\ iters = 1 /\ bufsize = 1) =>
          \A c \in OutChans : nchunks[c] = Lines(wrote[c])

C11_Witness ==
    /\ pc.main = "idle" /\ result = "StopIteration" /\ iters = 1 /\ bufsize = 1
    /\ wrote.stdout = <<"nl", "a", "nl">>
    /\ nchunks.stdout = 2

\* C12: with a block size N > 1 no chunk is longer than N bytes, and a chunk
\* shorter than N is yielded only after its channel's end-of-file, as the
\* last of the channel: a chunk yielded while the channel is open has N bytes.
C12_BlockChunks ==
    (pc.main = "yielded" /\ bufsize > 1) =>
        \A c \in OutChans :
            Chunk(lastItem, c) # <<>> =>
                /\ Len(Chunk(lastItem, c)) <= bufsize
                /\ c \in open => Len(Chunk(lastItem, c)) = bufsize
                /\ Len(Chunk(lastItem, c)) < bufsize => Buffer(c) = <<>>

C12_Witness ==
    /\ pc.main = "yielded" /\ bufsize = BlockSize
    /\ Len(lastItem.out) = BlockSize - 1
    /\ "stdout" \notin open
    /\ nchunks.stdout = 2
    /\ Len(yielded.stdout) = 2 * BlockSize - 1

\* C13: communicate() returns a pair whose stdout (stderr) component is None
\* exactly when that channel of the handle is no pipe or PTY, and is a byte
\* string otherwise: on a fresh handle all the bytes the child wrote to the
\* channel, the empty string when it wrote none.
C13_CommunicatePair ==
    (mode = "comm" /\ pc.main = "idle" /\ result = "returned") =>
        /\ commRet.out = NoneVal <=> "stdout" \notin chans
        /\ commRet.err = NoneVal <=> "stderr" \notin chans
        /\ iters = 1 =>
              /\ "stdout" \in chans => commRet.out = wrote.stdout
              /\ "stderr" \in chans => commRet.err = wrote.stderr

C13_Witness ==
    /\ mode = "comm" /\ pc.main = "idle" /\ result = "returned" /\ iters = 1
    /\ chans = {"stdin", "stdout"}
    /\ "stdin" \notin open
    /\ commRet.out = <<"a", "nl", "a">>
    /\ commRet.err = NoneVal

\* C14: the bytes written to the child's stdin are the spawn-time input
\* followed by the input given to communicate(), each once and in order,
\* whatever part of an offered slice the OS accepts: what was written and
\* what is pending make up what was given, stdin is closed only with nothing
\* pending, and an operation run to its end has written all that was given.
C14_InputWrittenOnce ==
    /\ written \o input = given
    /\ ("stdin" \in chans /\ "stdin" \notin open) => input = <<>>
    /\ (EndedNormally /\ "stdin" \in chans) => written = given

\* C15: a read error on an output channel is taken for end-of-file exactly
\* when the channel is a terminal and the error is EIO: the channel is then
\* closed and left out of the poll set, and the iterator goes on.  Any other
\* read error ends the operation with that error, the channel still open.
C15_ReadErrorIsEof ==
    \A c \in OutChans :
        readErr[c] # NoErrno =>
            IF c \in ptys /\ readErr[c] = EIO
            THEN c \notin open /\ c \notin files
            ELSE c \in open /\ pc.main = "idle" /\ result = "OSError"

C15_Witness ==
    /\ readErr.stdout = EIO
    /\ "stdout" \in ptys
    /\ yielded.stdout = wrote.stdout /\ wrote.stdout # <<>>
    /\ pc.main = "idle" /\ result = "StopIteration"
    /\ iters = 1

\* C16: when every iterator is driven until it ends or raises, an iterator
\* created after one that ended with TimeoutError registers exactly the
\* channels still open and starts from the buffers and the chunks as the old
\* one left them, and the chunks of all iterators up to a normal end are
\* the child's output.
C16_ContinueAfterTimeout ==
    /\ [](EndedNormally => \A c \in OutChans : yielded[c] = wrote[c])
    /\ [][(pc.main = "idle" /\ result = "TimeoutError" /\ mode = "iter"
             /\ pc'.main # "idle")
          => /\ files' = open'
             /\ open' \cap OutChans = open \cap OutChans
             /\ UNCHANGED <<outbuff, errbuff, yielded, nread>>]_vars

C16_Witness ==
    /\ pc.main = "yielded" /\ mode = "iter" /\ iters = 2
    /\ lastItem.out = <<"nl">>
    /\ yielded.stdout = <<"a", "nl", "nl">>
    /\ bufsize = 1

\* C17: an iterator ends normally only after every channel it registered has
\* been closed, and after its blocking reap: whenever an iterator, or
\* communicate(), has ended normally, no channel of the handle is open, the
\* process has exited and been reaped, and its status is recorded.
C17_NormalEndReaped ==
    EndedNormally =>
        /\ open = {}
        /\ files = {}
        /\ proc = "reaped"
        /\ returncode = {exitCode}

C17_Witness ==
    /\ EndedNormally
    /\ mode = "iter"
    /\ chans = {"stdin", "stdout", "stderr"}
    /\ written # <<>>
    /\ yielded.stdout # <<>>
    /\ pollRet.path = "queried" /\ pollRet.value = {}

\* C18: the poll set holds open descriptors only; a descriptor is closed at
\* most once, leaves the poll set in the step that closes it, and is never
\* open or registered again, in this iterator or a later one.
C18_CloseOnce ==
    /\ [](files \subseteq open /\ open \subseteq chans)
    /\ [](\A c \in Channels : closes[c] = IF c \in chans \ open THEN 1 ELSE 0)
    /\ [][open' \subseteq open /\ (open \ open') \cap files' = {}]_vars

C18_Witness ==
    /\ iters = 2
    /\ pc.main = "polling"
    /\ files = {"stderr"}
    /\ chans = Channels
    /\ closes = [stdin |-> 1, stdout |-> 1, stderr |-> 0]
    /\ result = "running"

C20_RetriesFailedCommand ==
    (run.by = "harness" /\ run.ret.kind = "return") =>
        run.executions = IF run.ret.code = {0} THEN 1 ELSE 1 + run.counter

\* The output of both channels as the harness RunCmd combines it.
CombinedOutput(pair) ==
    IF Truthy(pair.err) THEN pair.out \o <<"nl">> \o pair.err ELSE pair.out

\* C21: the harness RunCmd returns the exit code with the combined output of
\* the command, its stdout and its stderr, for every exit code.
C21_CombinedOutput ==
    (run.by = "harness" /\ run.ret.kind = "return") =>
        /\ run.ret.code = returncode
        /\ run.ret.value = <<CombinedOutput(commRet)>>

C23_WaitAndIterationComplete ==
    (pc.other # "idle" /\ pc.main # "idle")
        ~> (pc.other = "idle" /\ pc.main = "idle" /\ result = "StopIteration")

\* C24 as stated: whenever TimeoutError has reached the caller, from direct
\* iteration or from communicate(), the process has been killed and reaped.
C24_EveryTimeoutReaped ==
    (pc.main = "idle" /\ result = "TimeoutError")
        => (proc = "reaped" /\ returncode # {})

\* C24: a TimeoutError out of communicate() reaches the caller after the
\* process has been killed and reaped.  A TimeoutError out of direct
\* iteration leaves the process as it is: after a timeout of the first
\* iterator of a handle the process has not been killed and not been reaped,
\* and its status is not recorded.
C24_TimeoutKillsInCommunicateOnly ==
    (pc.main = "idle" /\ result = "TimeoutError") =>
        /\ mode = "comm" => (proc = "reaped" /\ returncode # {})
        /\ (mode = "iter" /\ iters = 1) =>
               /\ proc \in {"running", "zombie"}
               /\ returncode = {}
               /\ exitCode # 0 - SIGKILL

C24_Witness ==
    /\ pc.main = "idle" /\ result = "TimeoutError" /\ mode = "iter"
    /\ proc = "running"
    /\ returncode = {}

\* C25: the timeout is a deadline for the whole iteration: an iterator, or
\* communicate(), of a handle with timeout T is never still blocked in a
\* readiness poll when more than T has passed since it started.
C25_DeadlineForWholeIteration ==
    (timeout /\ pc.main = "polling") => clock.elapsed <= TimeoutTicks

\* C26: a multiplexer step whose poll returns nothing raises TimeoutError and
\* leaves the handle as it was: no channel is read, written or closed, the
\* pending input and both buffers keep their contents, and the lock is
\* released.  Without a timeout no step raises TimeoutError.
C26_TimeoutStepChangesNothing ==
    [][(pc.main = "polling" /\ (result' = "TimeoutError" \/ pc'.main = "comm_kill"))
        => /\ timeout
           /\ UNCHANGED <<chans, open, closes, input, outbuff, errbuff, nread,
                          written, yielded, bufsize, proc, returncode>>
           /\ lockOwner' = NoThread]_vars

C26_Witness ==
    /\ pc.main = "idle" /\ result = "TimeoutError" /\ mode = "iter"
    /\ outbuff # <<>>
    /\ input # <<>> /\ "stdin" \in open
    /\ "stdout" \in open
    /\ lockOwner = NoThread

\* A multiplexer step in which os.write takes exactly the bytes in slice.
WritesExactly(slice) == MuxBatch /\ written' = written \o slice

\* A multiplexer step in which os.write takes more than n bytes.
WritesMoreThan(n) == MuxBatch /\ Len(written') > Len(written) + n

\* The input up to and including its first newline, or all of it.
FirstLine(inp) == IF Find(inp) + 1 # 0 THEN Take(inp, Find(inp) + 1) ELSE inp

\* C27 as stated: on a write-ready stdin the OS is offered, and so can take
\* in one step, the pending input up to and including its next newline under
\* the line policy and all pending input under every other policy.
C27_OfferAllButForLine ==
    (pc.main = "polling" /\ "stdin" \in files)
        => ENABLED WritesExactly(IF bufsize = 1 THEN FirstLine(input) ELSE input)

\* C27: on a write-ready stdin the OS is offered the pending input up to and
\* including its next newline under the line policy (all of it when it holds
\* no newline), its first N bytes under fixed-block(N), and all of it under
\* the maximal and the unbuffered policy: one step can write the whole
\* offer and no step can write more.
C27_WriteOffer ==
    LET offer == IF bufsize = 1 THEN FirstLine(input)
                 ELSE IF bufsize > 1 THEN Take(input, bufsize)
                 ELSE input
    IN  (pc.main = "polling" /\ "stdin" \in files)
            => /\ ENABLED WritesExactly(offer)
               /\ ~ENABLED WritesMoreThan(Len(offer))

C27_Witness ==
    /\ bufsize = BlockSize
    /\ written = Take(given, BlockSize)
    /\ Len(input) > 0
    /\ "stdin" \in open
    /\ pc.main \in {"top", "drain"}

\* C28: with the line policy, whenever the caller has consumed the whole
\* drain of a readiness batch, the buffer of every open channel holds no
\* newline and the buffer of every channel that is closed is empty.
C28_LineBuffersAfterDrain ==
    (bufsize = 1 /\ pc.main \notin {"drain", "yielded"}) =>
        \A c \in OutChans :
            /\ c \in open => Newlines(Buffer(c)) = 0
            /\ c \notin open => Buffer(c) = <<>>

C28_Witness ==
    /\ bufsize = 1 /\ pc.main = "top" /\ mode = "iter"
    /\ "stdout" \in open
    /\ outbuff = <<"a">>
    /\ yielded.stdout = <<"a", "nl">>

\* C29: communicate() runs with the maximal policy whatever bufsize the
\* handle had: inside communicate() every item is yielded with both buffers
\* emptied, one write can take all pending input, and on a fresh handle the
\* result is all the child wrote.
C29_CommunicateIsMaximal ==
    mode = "comm" =>
        /\ pc.main # "idle" => bufsize = -1
        /\ pc.main = "yielded" => (outbuff = <<>> /\ errbuff = <<>>)
        /\ (pc.main = "polling" /\ "stdin" \in files) => ENABLED WritesExactly(input)
        /\ (pc.main = "idle" /\ result = "returned" /\ iters = 1) =>
               (commRet.out = Expected("stdout") /\ commRet.err = Expected("stderr"))

C29_Witness ==
    /\ mode = "comm" /\ pc.main = "idle" /\ result = "returned" /\ iters = 1
    /\ Len(written) = MaxWriteLen - 1
    /\ written[1] = "nl"
    /\ commRet.out = <<"a">>

\* C30: at every readiness poll stdin is in the poll set only if it is open
\* with input pending, and an output channel is in the poll set exactly when
\* it is open.  A stdin without pending input is closed when the iterator
\* starts, so an open stdin is always registered; and the step that writes
\* the last pending byte closes and deregisters stdin, so stdin is never
\* found open or registered with nothing pending, at a poll or between two.
C30_PollSet ==
    pc.main \in {"top", "polling", "drain", "yielded"} =>
        /\ "stdin" \in files => ("stdin" \in open /\ input # <<>>)
        /\ "stdin" \in open => "stdin" \in files
        /\ \A c \in OutChans : c \in files <=> c \in open

C30_Witness ==
    /\ pc.main = "polling" /\ iters = 1
    /\ "stdin" \in chans \ open
    /\ given = <<>>
    /\ closes.stdin = 1
    /\ files = OutChans

\* C31: when an iterator has been abandoned, or communicate() has failed
\* with TimeoutError, the next poll() or wait() on the handle leaves no
\* descriptor of the handle open.
C31_ReleasedWhenTouched ==
    [][(pc.main = "idle" /\ result \in {"abandoned", "TimeoutError"}
          /\ pc.other # "idle" /\ pc'.other = "idle")
        => open' = {}]_vars

\* C34: no item is yielded without data: a single chunk is never empty and
\* of the two chunks of a pair at least one is not.
C34_NoEmptyItem ==
    pc.main = "yielded" =>
        /\ lastItem.shape = "out" => lastItem.out # <<>>
        /\ lastItem.shape = "err" => lastItem.err # <<>>
        /\ lastItem.shape = "pair" => (lastItem.out # <<>> \/ lastItem.err # <<>>)
        /\ lastItem.shape # "none"

C34_Witness ==
    /\ pc.main = "yielded" /\ lastItem.shape = "pair" /\ bufsize = 1
    /\ lastItem.out = <<>>
    /\ lastItem.err = <<"nl">>
    /\ outbuff = <<"a">>

\* C35: communicate() sets the bufsize of the handle to -1 and nothing sets
\* it back: an iterator made after communicate() runs with bufsize -1, and
\* a bufsize of -1 stays -1.
C35_MaximalStays ==
    [][/\ (mode' = "comm" /\ pc'.main # "idle") => bufsize' = -1
       /\ (mode = "comm" /\ mode' = "iter") => bufsize' = -1
       /\ bufsize = -1 => bufsize' = -1]_vars

C35_Witness ==
    /\ mode = "iter" /\ iters = 2 /\ pc.main = "yielded"
    /\ bufsize = -1
    /\ lastItem.out = <<"nl", "nl">>
    /\ nchunks.stdout = 2
    /\ yielded.stdout = <<"nl", "nl", "nl">>

\* poll() of the other thread getting the lock.
PollLocks == PollTry /\ pc'.other = "poll_locked"

\* C33: whenever control is with the consumer (the iterator is suspended at
\* a yield, has ended, or has raised) the iterating thread does not hold the
\* lock: a wait() of the other thread can take it and a poll() of the other
\* thread gets it and queries the OS.
C33_NoLockWithConsumer ==
    pc.main \in {"yielded", "idle"} =>
        /\ lockOwner # "main"
        /\ pc.other = "owait_lock" => ENABLED OtherWaitAcquire
        /\ pc.other = "poll_call" => ENABLED PollLocks

C33_Witness ==
    /\ pc.main = "idle" /\ result = "PollError" /\ mode = "iter"
    /\ pc.other = "owait_lock"
    /\ lockOwner = NoThread
    /\ open # {}

\* C36: when the iteration inside communicate() fails with PollError or an
\* I/O error, the exception reaches the caller at once: the process is not
\* killed and not reaped, its status is not recorded, and the items the call
\* had collected are gone.  Only a timeout takes communicate() to the kill.
C36_ErrorsNotReaped ==
    [][/\ (mode = "comm" /\ pc.main = "polling" /\ result' \in {"PollError", "OSError"})
           => /\ pc'.main = "idle"
              /\ UNCHANGED <<proc, returncode, exitCode, commRet>>
              /\ output' = <<>>
       /\ (pc.main = "polling" /\ pc'.main = "comm_kill")
           => (timeout /\ mode = "comm" /\ result' = result)]_vars

C36_Witness ==
    /\ mode = "comm" /\ pc.main = "idle" /\ result = "PollError"
    /\ proc = "running" /\ returncode = {}
    /\ yielded.stdout # <<>>
    /\ commRet.out = NoneVal

\* C32: when the child is spawned, every stream given as PTY has a
\* pseudo-terminal of its own, made by this call, whose slave is in raw mode
\* (also after interrupted raw-mode calls); no master is in raw mode; and a
\* stderr merged into a PTY stdout is the slave of stdout's pseudo-terminal.
C32_PtyHandles ==
    fds.at = "spawned" =>
        /\ \A s \in Streams : fds.cfg[s] = "PTY" =>
               \E n \in 1..fds.n :
                   /\ fds.handles[FirstOfPair(s)] = Master(n)
                   /\ fds.handles[SecondOfPair(s)] = Slave(n)
                   /\ Slave(n) \in fds.raw
                   /\ \A t \in Streams \ {s} :
                          /\ fds.handles[FirstOfPair(t)] # Master(n)
                          /\ fds.handles[SecondOfPair(t)] = Slave(n) =>
                                 (s = "stdout" /\ t = "stderr" /\ fds.cfg.stderr = "STDOUT")
        /\ fds.n = Cardinality({s \in Streams : fds.cfg[s] = "PTY"})
        /\ \A d \in fds.raw : \E n \in 1..fds.n : d = Slave(n)
        /\ (fds.cfg.stdout = "PTY" /\ fds.cfg.stderr = "STDOUT") =>
               /\ fds.child[3] = fds.child[2]
               /\ fds.child[2] = fds.handles.c2pwrite
               /\ fds.child[2] \in fds.raw

C32_Witness ==
    /\ fds.at = "spawned"
    /\ fds.cfg = [stdin |-> "PTY", stdout |-> "PTY", stderr |-> "STDOUT"]
    /\ fds.intr = MaxInterrupts
    /\ fds.child = <<Master(1), Slave(2), Slave(2)>>
    /\ fds.raw = {Slave(1), Slave(2)}

\* C37: the timeout the harness RunCmd applies is never below 20: a given
\* timeout of 20 or less becomes 20 and a larger one is applied as given.
C37_TimeoutFloor ==
    loop.executions > 0 =>
        /\ loop.applied >= 20
        /\ loop.given <= 20 => loop.applied = 20
        /\ loop.given > 20 => loop.applied = loop.given

C37_Witness ==
    /\ loop.fn = "test_service_traffic"
    /\ loop.executions = 2
    /\ loop.given = 10
    /\ loop.applied = 20

\* C38 as stated: get_all_for_namespace executes its command at most 30
\* times, whatever each execution does.
C38_AtMostThirtyExecutions ==
    loop.fn = "get_all_for_namespace" => loop.executions <= 30

\* C39 as stated: test_service_traffic executes its command at most 10
\* times, whatever each execution does, and then records one test result.
C39_AtMostTenExecutions ==
    loop.fn = "test_service_traffic" =>
        /\ loop.executions <= 10
        /\ loop.done => loop.results = 1

====
